---------------------------- MODULE Spec2Model ----------------------------
(***************************************************************************)
(* Model of the table transformations of the health-care data analysis     *)
(* repository (src/data_processing.py, src/clinical_analysis.py).          *)
(*                                                                         *)
(* A DataFrame is a record [kind, columns, rows]: columns is the set of    *)
(* column names and rows the sequence of rows in table order; a row is a   *)
(* function from the column names, and from "index" (the row's index       *)
(* label, which pandas carries through sorting and filtering), to cells.   *)
(* Dates are whole calendar days counted from an epoch, so a timedelta's   *)
(* .days is the difference of two day numbers.  A missing cell (NaN, NaT,  *)
(* None) is the cell NaN.  Risk scores are exact rationals held as a       *)
(* numerator over ScoreDen.                                                *)
(***************************************************************************)
EXTENDS Integers, Sequences, FiniteSets, TLC

VARIABLES fn, par, pre, obj, ret

vars == <<fn, par, pre, obj, ret>>

(* fn  : the function called last ("load_patient_data" after loading)      *)
(* par : the keyword parameter of that call (days, percentile, ...)        *)
(* pre : the table passed to that call, as it was before the call          *)
(* obj : the same table object as it is after the call                     *)
(* ret : the value the call returned                                       *)

-----------------------------------------------------------------------------
(* Bounds of the model *)

MaxRows == 3

(* rows of the tables taken through the derivation pipeline *)
MaxRiskRows == 2

-----------------------------------------------------------------------------
(* Cells, rows and tables *)

NaN == -99999

isna(x) == x = NaN

None == [kind |-> "None"]

DataFrame(cols, rws) == [kind |-> "DataFrame", columns |-> cols, rows |-> rws]

IsFrame(v) == v.kind = "DataFrame"

(* row[c] = v, adding the column when the row lacks it: df[c] = ... *)
SetCell(row, c, v) ==
    [x \in (DOMAIN row) \cup {c} |-> IF x = c THEN v ELSE row[x]]

(* pandas' default RangeIndex 0..n-1 given to freshly loaded rows *)
WithIndex(cells) ==
    [k \in 1..Len(cells) |-> SetCell(cells[k], "index", k - 1)]

(* Boolean indexing df[mask] is SelectSeq: the rows satisfying the mask, *)
(* in table order.                                                       *)

(* comparisons with a missing operand are False, as NaN comparisons are *)
le(x, y) == ~isna(x) /\ ~isna(y) /\ x <= y
lt(x, y) == ~isna(x) /\ ~isna(y) /\ x < y
ge(x, y) == ~isna(x) /\ ~isna(y) /\ x >= y
gt(x, y) == ~isna(x) /\ ~isna(y) /\ x > y

(* (a - b).dt.days over whole-day dates: NaT when either date is NaT *)
timedelta_days(a, b) == IF isna(a) \/ isna(b) THEN NaN ELSE a - b

-----------------------------------------------------------------------------
(* clean_patient_data *)

(* A cell of a date column as loaded: text in one of two date formats,    *)
(* text that is no date, or an empty cell; day is the date the text names *)
DateText(fmt, day) == [fmt |-> fmt, day |-> day]

NotADate == DateText("text", NaN)

EmptyCell == DateText("nan", NaN)

DateColumns == <<"admission_date", "discharge_date", "birth_date">>

(* the format of the first non-empty cell of column col, "nan" if none *)
first_format(rws, col) ==
    LET filled == { k \in 1..Len(rws) : rws[k][col].fmt # "nan" }
    IN  IF filled = {} THEN "nan"
        ELSE rws[CHOOSE k \in filled : \A j \in filled : k <= j][col].fmt

(* pd.to_datetime(cell, errors='coerce'): the date the text names, NaT    *)
(* for an empty cell and for text that does not parse.  With inference    *)
(* "mixed" every cell is parsed on its own; with "first" the format of    *)
(* the column's first non-empty cell is applied to the whole column (the  *)
(* two behaviours of the pandas releases), unless that cell is no date.   *)
to_datetime(cell, fmt0, inference) ==
    IF cell.fmt \notin {"iso", "us"} THEN NaN
    ELSE IF inference = "first" /\ fmt0 \in {"iso", "us"} /\ cell.fmt # fmt0
         THEN NaN
         ELSE cell.day

(* the loop over date_columns, for the columns the table has *)
RECURSIVE convert_dates(_, _, _, _)
convert_dates(rws, cols, dateCols, inference) ==
    IF dateCols = <<>> THEN rws
    ELSE LET col == Head(dateCols)
             converted ==
                 IF col \in cols
                 THEN [k \in 1..Len(rws) |->
                         SetCell(rws[k], col,
                                 to_datetime(rws[k][col],
                                             first_format(rws, col), inference))]
                 ELSE rws
         IN  convert_dates(converted, cols, Tail(dateCols), inference)

SamePair(r, s) ==
    /\ r["patient_id"] = s["patient_id"]
    /\ r["admission_date"] = s["admission_date"]

(* the rows of rws at the positions K, from position k on, in order *)
RECURSIVE take(_, _, _)
take(rws, K, k) ==
    IF k > Len(rws) THEN <<>>
    ELSE (IF k \in K THEN <<rws[k]>> ELSE <<>>) \o take(rws, K, k + 1)

(* the last row of every pair kept instead of the first *)
drop_duplicates_keep_last(rws) ==
    take(rws, { k \in 1..Len(rws) :
                  \A j \in (k + 1)..Len(rws) : ~SamePair(rws[j], rws[k]) }, 1)

(* drop_duplicates(subset=['patient_id', 'admission_date'], keep='first'); *)
(* missing values count as equal to each other                             *)
drop_duplicates(rws) ==
    take(rws, { k \in 1..Len(rws) :
                  \A j \in 1..(k - 1) : ~SamePair(rws[j], rws[k]) }, 1)

(* rows dropped on a missing patient_id alone *)
dropna_patient_only(rws) ==
    LET populated(r) == ~isna(r["patient_id"])
    IN  SelectSeq(rws, populated)

(* dropna(subset=['patient_id', 'admission_date']) *)
dropna(rws) ==
    LET populated(r) == ~isna(r["patient_id"]) /\ ~isna(r["admission_date"])
    IN  SelectSeq(rws, populated)

(* df[(df['age'] >= 0) & (df['age'] <= 120)], when the table has an age *)
valid_ages(rws, cols) ==
    LET valid(r) == ge(r["age"], 0) /\ le(r["age"], 120)
    IN  IF "age" \in cols THEN SelectSeq(rws, valid) ELSE rws

clean_patient_data(df, inference) ==
    LET df_clean == convert_dates(df.rows, df.columns, DateColumns, inference)
    IN  DataFrame(df.columns,
                  valid_ages(dropna(drop_duplicates(df_clean)), df.columns))

-----------------------------------------------------------------------------
(* calculate_patient_age *)

(* (reference_date - birth_date).dt.days // 365, missing when the birth   *)
(* date is; // rounds towards minus infinity, as \div does                *)
age_cell(reference_date, birth) ==
    LET d == timedelta_days(reference_date, birth)
    IN  IF isna(d) THEN NaN ELSE d \div 365

(* df['age'] = ...: the column is written into the table passed in, which *)
(* is also the table returned                                             *)
calculate_patient_age(df, reference_date) ==
    DataFrame(df.columns \cup {"age"},
              [k \in 1..Len(df.rows) |->
                  SetCell(df.rows[k], "age",
                          age_cell(reference_date, df.rows[k]["birth_date"]))])

-----------------------------------------------------------------------------
(* calculate_length_of_stay *)

(* the zero-day stay left as computed *)
length_of_stay_cell_zero_kept(admission, discharge) ==
    LET computed == timedelta_days(discharge, admission)
    IN  IF lt(computed, 0) THEN NaN ELSE computed

(* (discharge - admission).dt.days, then negative -> NaN, then 0 -> 1 *)
length_of_stay_cell(admission, discharge) ==
    LET computed == timedelta_days(discharge, admission)
        nonneg   == IF lt(computed, 0) THEN NaN ELSE computed
    IN  IF nonneg = 0 THEN 1 ELSE nonneg

(* the column is written into the table passed in, which is returned *)
calculate_length_of_stay(df) ==
    DataFrame(df.columns \cup {"length_of_stay"},
              [k \in 1..Len(df.rows) |->
                  SetCell(df.rows[k], "length_of_stay",
                          length_of_stay_cell(df.rows[k]["admission_date"],
                                              df.rows[k]["discharge_date"]))])

-----------------------------------------------------------------------------
(* identify_readmissions *)

(* ascending order of one sort key, missing values last (na_position) *)
KeyBefore(x, y) == ~isna(x) /\ (isna(y) \/ x < y)

(* lexicographic order on the keys [patient_id_col, admission_col] *)
RowBefore(r, s) ==
    \/ KeyBefore(r["patient_id"], s["patient_id"])
    \/ /\ r["patient_id"] = s["patient_id"]
       /\ KeyBefore(r["admission_date"], s["admission_date"])

(* row r put into the sorted rows s, after the rows it does not sort      *)
(* strictly before: rows with equal keys keep their table order           *)
RECURSIVE insert_sorted(_, _)
insert_sorted(s, r) ==
    IF s = <<>> THEN <<r>>
    ELSE IF RowBefore(r, Head(s)) THEN <<r>> \o s
    ELSE <<Head(s)>> \o insert_sorted(Tail(s), r)

(* the first k rows of rws, sorted *)
RECURSIVE sort_prefix(_, _)
sort_prefix(rws, k) ==
    IF k = 0 THEN <<>> ELSE insert_sorted(sort_prefix(rws, k - 1), rws[k])

(* df.sort_values([patient_id_col, admission_col]): a stable sort *)
sort_values(rws) == sort_prefix(rws, Len(rws))

(* shift(1) taken over the whole table instead of within each patient *)
groupby_shift_ungrouped(rws, k) ==
    IF k = 1 THEN NaN ELSE rws[k - 1]["discharge_date"]

(* groupby(patient_id_col)[discharge_col].shift(1): the discharge date of *)
(* the row before row k within its patient group; NaT for the first row   *)
(* of a group and for rows whose patient_id is missing (groupby drops     *)
(* missing keys)                                                          *)
groupby_shift(rws, k) ==
    LET same == { j \in 1..(k - 1) :
                    rws[j]["patient_id"] = rws[k]["patient_id"] }
    IN  IF isna(rws[k]["patient_id"]) \/ same = {}
        THEN NaN
        ELSE rws[CHOOSE j \in same : \A i \in same : i <= j]["discharge_date"]

(* the window taken exclusive of its last day *)
readmission_flag_exclusive(gap, days) == lt(gap, days) /\ gt(gap, 0)

(* (days_since_discharge <= days) & (days_since_discharge > 0); the       *)
(* comparisons already give False on a missing gap, so the fillna(False)  *)
(* that follows changes nothing                                           *)
readmission_flag(gap, days) == le(gap, days) /\ gt(gap, 0)

identify_readmissions(df, days) ==
    LET sorted == sort_values(df.rows)
        flagged(k) ==
            LET prev == groupby_shift(sorted, k)
                gap  == timedelta_days(sorted[k]["admission_date"], prev)
                r1   == SetCell(sorted[k], "previous_discharge", prev)
                r2   == SetCell(r1, "days_since_discharge", gap)
            IN  SetCell(r2, "is_readmission", readmission_flag(gap, days))
    IN  DataFrame(df.columns \cup {"previous_discharge",
                                   "days_since_discharge", "is_readmission"},
                  [k \in 1..Len(sorted) |-> flagged(k)])

-----------------------------------------------------------------------------
(* stratify_risk_score *)

(* scores are rationals numerator / ScoreDen; 120 is the age divisor *)
ScoreDen == 120

minimum(x, y) == IF isna(x) \/ isna(y) THEN NaN ELSE IF x <= y THEN x ELSE y

(* Series + Series: missing when either operand is *)
add(x, y) == IF isna(x) \/ isna(y) THEN NaN ELSE x + y

(* (df[age_col] / 120) * 30 *)
age_normalized(age) ==
    IF isna(age) THEN NaN ELSE age * (ScoreDen \div 120) * 30

(* np.minimum(df[los_col] / 30, 1) * 30 *)
los_normalized(los) ==
    IF isna(los) THEN NaN
    ELSE minimum(los * (ScoreDen \div 30), 1 * ScoreDen) * 30

(* df[readmission_col].astype(int) * 40 *)
readmission_points(flag) == (IF flag THEN 1 ELSE 0) * 40 * ScoreDen

(* the boundaries taken inclusive on the low side *)
categorize_risk_inclusive(score) ==
    IF le(score, 30 * ScoreDen) THEN "Low Risk"
    ELSE IF le(score, 60 * ScoreDen) THEN "Medium Risk"
    ELSE "High Risk"

(* a missing score fails both comparisons and falls to the else branch *)
categorize_risk(score) ==
    IF lt(score, 30 * ScoreDen) THEN "Low Risk"
    ELSE IF lt(score, 60 * ScoreDen) THEN "Medium Risk"
    ELSE "High Risk"

(* the risk score of one row, each component added when its column is in  *)
(* the table                                                              *)
risk_score_cell(cols, row) ==
    LET s0 == 0
        s1 == IF "age" \in cols
              THEN add(s0, age_normalized(row["age"])) ELSE s0
        s2 == IF "length_of_stay" \in cols
              THEN add(s1, los_normalized(row["length_of_stay"])) ELSE s1
    IN  IF "is_readmission" \in cols
        THEN add(s2, readmission_points(row["is_readmission"])) ELSE s2

(* works on df.copy() and returns the copy *)
stratify_risk_score(df) ==
    LET scored(row) == SetCell(row, "risk_score",
                               risk_score_cell(df.columns, row))
        categorized(row) == SetCell(scored(row), "risk_category",
                                categorize_risk(scored(row)["risk_score"]))
    IN  DataFrame(df.columns \cup {"risk_score", "risk_category"},
                  [k \in 1..Len(df.rows) |-> categorized(df.rows[k])])

-----------------------------------------------------------------------------
(* identify_high_cost_patients *)

(* the costs that are not missing, in table order *)
RECURSIVE present_costs(_)
present_costs(rws) ==
    IF rws = <<>> THEN <<>>
    ELSE (IF isna(Head(rws)["total_cost"]) THEN <<>>
          ELSE <<Head(rws)["total_cost"]>>) \o present_costs(Tail(rws))

(* the values of c in ascending order *)
sorted_values(c) ==
    LET n == Len(c)
        rank(i) == 1 + Cardinality({ j \in 1..n :
                        c[j] < c[i] \/ (c[j] = c[i] /\ j < i) })
    IN  [k \in 1..n |-> c[CHOOSE i \in 1..n : rank(i) = k]]

(* Series.quantile(percentile / 100) with linear interpolation between    *)
(* the two nearest order statistics, missing values skipped, as a         *)
(* numerator over 100; NaN when no cost is present                        *)
quantile(rws, percentile) ==
    LET c     == sorted_values(present_costs(rws))
        n     == Len(c)
        whole == ((n - 1) * percentile) \div 100
        part  == ((n - 1) * percentile) % 100
    IN  IF n = 0 THEN NaN
        ELSE IF part = 0 THEN 100 * c[whole + 1]
        ELSE 100 * c[whole + 1] + part * (c[whole + 2] - c[whole + 1])

(* the threshold taken exclusive *)
above_threshold_strict(cost, threshold) ==
    ~isna(cost) /\ gt(100 * cost, threshold)

(* df[cost_col] >= cost_threshold *)
above_threshold(cost, threshold) ==
    ~isna(cost) /\ ge(100 * cost, threshold)

identify_high_cost_patients(df, percentile) ==
    IF "total_cost" \notin df.columns THEN None
    ELSE LET cost_threshold == quantile(df.rows, percentile)
             high(r) == above_threshold(r["total_cost"], cost_threshold)
             high_cost_patients == SelectSeq(df.rows, high)
         IN  DataFrame(df.columns \cup {"cost_category"},
                       [k \in 1..Len(high_cost_patients) |->
                           SetCell(high_cost_patients[k], "cost_category",
                                   "High Cost")])

-----------------------------------------------------------------------------
(* categorize_age_groups *)

bins == <<0, 18, 35, 50, 65, 80, 120>>

labels == <<"0-17", "18-34", "35-49", "50-64", "65-79", "80+">>

(* the missing category pd.cut gives a value that falls in no bin *)
NoCategory == "nan"

(* pd.cut(x, bins, labels, right=False): [0, 18), [18, 35), ..., [80, 120) *)
cut(x) ==
    LET hit == {i \in 1..Len(labels) : ge(x, bins[i]) /\ lt(x, bins[i + 1])}
    IN  IF hit = {} THEN NoCategory ELSE labels[CHOOSE i \in hit : TRUE]

(* df['age_group'] = ...: the column is written into the table passed in, *)
(* which is also the table returned                                       *)
categorize_age_groups(df) ==
    DataFrame(df.columns \cup {"age_group"},
              [k \in 1..Len(df.rows) |->
                  SetCell(df.rows[k], "age_group", cut(df.rows[k]["age"]))])

-----------------------------------------------------------------------------
(* calculate_readmission_rate, calculate_mortality_rate *)

(* a call that ended in the exception e *)
Raised(e) == [kind |-> e]

(* a float result, held exactly as numerator / denominator *)
Float(num, den) == [kind |-> "float", num |-> num, den |-> den]

FloatNaN == [kind |-> "float", num |-> NaN, den |-> 1]

(* the number of rows of rws whose cell in column c is v: (df[c] == v).sum(), *)
(* and df[c].sum() of a boolean column for v = TRUE                        *)
count_cells(rws, c, v) == Cardinality({k \in 1..Len(rws) : rws[k][c] = v})

(* n / d of a numpy integer n: 0 / 0 is nan (with a RuntimeWarning) *)
numpy_divide(n, d) == IF d = 0 THEN FloatNaN ELSE Float(n, d)

(* n / d of a Python int n: division by zero raises *)
python_divide(n, d) ==
    IF d = 0 THEN Raised("ZeroDivisionError") ELSE Float(n, d)

(* x * 100 *)
times100(x) ==
    IF x.kind # "float" \/ isna(x.num) THEN x ELSE Float(x.num * 100, x.den)

(* (df[readmission_col].sum() / len(df)) * 100.  The sum of a bool column  *)
(* is a numpy integer; the sum of an object column (every column of a     *)
(* table read from a file with a header and no rows) is a Python int.     *)
calculate_readmission_rate(df, dtype) ==
    IF "is_readmission" \notin df.columns THEN Raised("KeyError")
    ELSE LET flagged == count_cells(df.rows, "is_readmission", TRUE)
         IN  IF dtype = "object" /\ Len(df.rows) = 0
             THEN times100(python_divide(flagged, Len(df.rows)))
             ELSE times100(numpy_divide(flagged, Len(df.rows)))

(* None when the outcome column is absent; the comparison gives a bool    *)
(* column, whose sum is a numpy integer                                   *)
calculate_mortality_rate(df) ==
    IF "outcome" \notin df.columns THEN None
    ELSE times100(numpy_divide(count_cells(df.rows, "outcome", "deceased"),
                               Len(df.rows)))

-----------------------------------------------------------------------------
(* calculate_department_efficiency *)

(* the department names, in the order groupby sorts its keys *)
Departments == <<"ER", "ICU">>

FloatInf == [kind |-> "float", num |-> 1, den |-> 0]

(* the sum of the values present in column c *)
RECURSIVE sum_present(_, _)
sum_present(rws, c) ==
    IF rws = <<>> THEN 0
    ELSE (IF isna(Head(rws)[c]) THEN 0 ELSE Head(rws)[c])
         + sum_present(Tail(rws), c)

(* 'count': the number of values present in column c *)
count_present(rws, c) ==
    Cardinality({k \in 1..Len(rws) : ~isna(rws[k][c])})

(* 'mean': over the values present, nan when there is none *)
mean(rws, c) == numpy_divide(sum_present(rws, c), count_present(rws, c))

(* (avg_los * avg_cost) / patient_count in float arithmetic *)
efficiency_score(avg_los, avg_cost, patient_count) ==
    IF isna(avg_los.num) \/ isna(avg_cost.num) THEN FloatNaN
    ELSE LET product == Float(avg_los.num * avg_cost.num,
                              avg_los.den * avg_cost.den)
         IN  IF patient_count # 0
             THEN Float(product.num, product.den * patient_count)
             ELSE IF product.num = 0 THEN FloatNaN ELSE FloatInf

(* one row of the aggregate per department that has rows, in key order *)
RECURSIVE department_metrics(_, _)
department_metrics(rws, depts) ==
    IF depts = <<>> THEN <<>>
    ELSE LET member(r) == r["department"] = Head(depts)
             group     == SelectSeq(rws, member)
             count     == count_present(group, "patient_id")
             avg_los   == mean(group, "length_of_stay")
             avg_cost  == mean(group, "total_cost")
             metrics   ==
                 [department |-> Head(depts),
                  patient_count |-> count,
                  avg_los |-> avg_los,
                  avg_cost |-> avg_cost,
                  efficiency_score |->
                      efficiency_score(avg_los, avg_cost, count)]
         IN  (IF group = <<>> THEN <<>> ELSE <<metrics>>)
             \o department_metrics(rws, Tail(depts))

(* every key of the dict given to agg, cost_col included whichever        *)
(* function it is paired with, must be a column of the table: agg raises  *)
(* KeyError for a column that does not exist                              *)
calculate_department_efficiency(df) ==
    IF ~({"department", "patient_id", "length_of_stay", "total_cost"}
            \subseteq df.columns)
    THEN Raised("KeyError")
    ELSE DataFrame({"department", "patient_count", "avg_los", "avg_cost",
                    "efficiency_score"},
                   WithIndex(department_metrics(df.rows, Departments)))

-----------------------------------------------------------------------------
(* anonymize_patient_data *)

(* row k holds the first occurrence of its patient_id *)
first_occurrence(rws, k) ==
    \A j \in 1..(k - 1) : rws[j]["patient_id"] # rws[k]["patient_id"]

(* enumerate(unique_ids, 1): the rank of an id among the ids in order of  *)
(* first appearance                                                       *)
id_rank(rws, id) ==
    LET first == CHOOSE k \in 1..Len(rws) :
                     rws[k]["patient_id"] = id /\ first_occurrence(rws, k)
    IN  Cardinality({j \in 1..first : first_occurrence(rws, j)})

(* f'PAT_{i:06d}' *)
id_mapping(i) == [prefix |-> "PAT_", number |-> i]

(* df['anonymized_id'] = ...: the column is written into the table passed *)
(* in, which is also the table returned                                   *)
anonymize_patient_data(df) ==
    DataFrame(df.columns \cup {"anonymized_id"},
              [k \in 1..Len(df.rows) |->
                  SetCell(df.rows[k], "anonymized_id",
                          id_mapping(id_rank(df.rows,
                                             df.rows[k]["patient_id"])))])

-----------------------------------------------------------------------------
(* calculate_comorbidity_index, predict_readmission_risk *)

(* df[condition_cols].sum(axis=1) of one row: the sum of the cells present *)
RECURSIVE row_sum(_, _)
row_sum(row, condition_cols) ==
    IF condition_cols = <<>> THEN 0
    ELSE (IF isna(row[Head(condition_cols)]) THEN 0
          ELSE row[Head(condition_cols)])
         + row_sum(row, Tail(condition_cols))

(* works on df.copy() and returns the copy; selecting a column the table  *)
(* lacks raises KeyError                                                  *)
calculate_comorbidity_index(df, condition_cols) ==
    IF \E i \in 1..Len(condition_cols) : condition_cols[i] \notin df.columns
    THEN Raised("KeyError")
    ELSE DataFrame(df.columns \cup {"comorbidity_index"},
                   [k \in 1..Len(df.rows) |->
                       SetCell(df.rows[k], "comorbidity_index",
                               row_sum(df.rows[k], condition_cols))])

(* the points of one row: each rule counts when its feature is asked for  *)
(* and the table has the column                                           *)
risk_points(cols, features, row) ==
    (IF "age" \in features /\ "age" \in cols /\ gt(row["age"], 65)
     THEN 2 ELSE 0)
    + (IF "length_of_stay" \in features /\ "length_of_stay" \in cols
          /\ gt(row["length_of_stay"], 7)
       THEN 2 ELSE 0)
    + (IF "comorbidity_index" \in features /\ "comorbidity_index" \in cols
          /\ ge(row["comorbidity_index"], 2)
       THEN 3 ELSE 0)

(* np.minimum(risk_points / 7 * 100, 100) *)
predicted_risk(points) ==
    IF points * 100 > 100 * 7 THEN Float(100, 1) ELSE Float(points * 100, 7)

(* works on df.copy() and returns the copy *)
predict_readmission_risk(df, features) ==
    DataFrame(df.columns \cup {"predicted_readmission_risk"},
              [k \in 1..Len(df.rows) |->
                  SetCell(df.rows[k], "predicted_readmission_risk",
                          predicted_risk(risk_points(df.columns, features,
                                                     df.rows[k])))])

-----------------------------------------------------------------------------
(* Readmission inputs: encounters of two patients, dates taken from the   *)
(* documented example (discharge day 10, admission day 15, admission day  *)
(* 100), either date possibly missing, and encounters with no patient_id  *)

PatientIds == {1, 2}

Percentiles == {0, 50, 90, 100}

(* the dates ages are computed at *)
ReferenceDates == {50000}

EncounterDays == {10, 15, 100}

Windows == {5, 30}

DischargeDays == {10, 15}

(* encounters without a patient_id: admitted on day 15 *)
UnidentifiedRows ==
    [patient_id : {NaN},
     admission_date : {15},
     discharge_date : {10, NaN}]

EncounterRows ==
    [patient_id : PatientIds,
     admission_date : EncounterDays \cup {NaN},
     discharge_date : DischargeDays \cup {NaN}] \cup UnidentifiedRows

EncounterColumns == {"patient_id", "admission_date", "discharge_date"}

Loaded(df) ==
    /\ fn = "load_patient_data"
    /\ par = NaN
    /\ pre = None
    /\ obj = None
    /\ ret = df

(* load_patient_data: a table of at most maxrows rows drawn from RowSet *)
load_patient_data(cols, RowSet, maxrows) ==
    \E n \in 0..maxrows : \E cells \in [1..n -> RowSet] :
        Loaded(DataFrame(cols, WithIndex(cells)))

InitEncounters == load_patient_data(EncounterColumns, EncounterRows, MaxRows)

Call_identify_readmissions ==
    /\ IsFrame(ret)
    /\ EncounterColumns \subseteq ret.columns
    /\ ret.columns \cap {"is_readmission", "risk_score"} = {}
    /\ \E days \in Windows :
         /\ fn' = "identify_readmissions"
         /\ par' = days
         /\ pre' = ret
         /\ obj' = ret
         /\ ret' = identify_readmissions(ret, days)

Call_calculate_length_of_stay ==
    /\ IsFrame(ret)
    /\ {"admission_date", "discharge_date"} \subseteq ret.columns
    /\ ret.columns \cap {"length_of_stay", "risk_score"} = {}
    /\ fn' = "calculate_length_of_stay"
    /\ par' = NaN
    /\ pre' = ret
    /\ obj' = calculate_length_of_stay(ret)
    /\ ret' = obj'

Call_calculate_patient_age ==
    /\ IsFrame(ret)
    /\ "birth_date" \in ret.columns
    /\ ret.columns \cap {"age", "risk_score"} = {}
    /\ \E reference_date \in ReferenceDates :
         /\ fn' = "calculate_patient_age"
         /\ par' = reference_date
         /\ pre' = ret
         /\ obj' = calculate_patient_age(ret, reference_date)
         /\ ret' = obj'

(* the score columns written into the table passed in *)
Call_stratify_risk_score_in_place ==
    /\ IsFrame(ret)
    /\ "risk_score" \notin ret.columns
    /\ fn' = "stratify_risk_score"
    /\ par' = NaN
    /\ pre' = ret
    /\ obj' = stratify_risk_score(ret)
    /\ ret' = obj'

Call_stratify_risk_score ==
    /\ IsFrame(ret)
    /\ "risk_score" \notin ret.columns
    /\ fn' = "stratify_risk_score"
    /\ par' = NaN
    /\ pre' = ret
    /\ obj' = ret
    /\ ret' = stratify_risk_score(ret)

Call_clean_patient_data ==
    /\ fn = "load_patient_data"
    /\ IsFrame(ret)
    /\ {"patient_id", "admission_date"} \subseteq ret.columns
    /\ \E inference \in {"mixed", "first"} :
         /\ fn' = "clean_patient_data"
         /\ par' = inference
         /\ pre' = ret
         /\ obj' = ret
         /\ ret' = clean_patient_data(ret, inference)

Call_identify_high_cost_patients ==
    /\ fn = "load_patient_data"
    /\ IsFrame(ret)
    /\ \E percentile \in Percentiles :
         /\ fn' = "identify_high_cost_patients"
         /\ par' = percentile
         /\ pre' = ret
         /\ obj' = ret
         /\ ret' = identify_high_cost_patients(ret, percentile)

NextReadm == Call_identify_readmissions

SpecReadm == InitEncounters /\ [][NextReadm]_vars

NextLos == Call_calculate_length_of_stay

SpecLos == InitEncounters /\ [][NextLos]_vars

(* The derivation pipeline: encounters of one patient around the          *)
(* reference date, with birth dates 70, 80, 120 and 130 years before it,  *)
(* taken through the derivations in any order and then scored             *)
BirthDays == {24400, 20800, 6200, 2550}

RiskRows ==
    [patient_id : {1},
     admission_date : {49960, 49975},
     discharge_date : {49970, 50010, NaN},
     birth_date : BirthDays \cup {NaN}]

RiskColumns == EncounterColumns \cup {"birth_date"}

InitRisk == load_patient_data(RiskColumns, RiskRows, MaxRiskRows)

NextRisk ==
    \/ Call_calculate_patient_age
    \/ Call_calculate_length_of_stay
    \/ Call_identify_readmissions
    \/ Call_stratify_risk_score

SpecRisk == InitRisk /\ [][NextRisk]_vars

(* Raw tables: admission dates as text, with or without an age column *)
RawDates ==
    {DateText("iso", 1), DateText("us", 1), DateText("iso", 2),
     NotADate, EmptyCell}

RawAges == {-1, 120, 121, NaN}

RawRows == [patient_id : PatientIds \cup {NaN}, admission_date : RawDates]

RawRowsWithAge ==
    [patient_id : PatientIds,
     admission_date : {DateText("iso", 1), DateText("us", 1), NotADate},
     age : RawAges]

InitRaw ==
    \/ load_patient_data({"patient_id", "admission_date"}, RawRows, MaxRows)
    \/ load_patient_data({"patient_id", "admission_date", "age"},
                         RawRowsWithAge, MaxRows)

NextClean == Call_clean_patient_data

SpecClean == InitRaw /\ [][NextClean]_vars

(* Cost tables: with a total_cost column, any cost possibly missing, or   *)
(* without one                                                            *)
Costs == {100, 200, 500}

CostRows == [patient_id : {1}, total_cost : Costs \cup {NaN}]

InitCost ==
    \/ load_patient_data({"patient_id", "total_cost"}, CostRows, MaxRows)
    \/ load_patient_data({"patient_id"}, [patient_id : PatientIds], MaxRows)

NextCost == Call_identify_high_cost_patients

SpecCost == InitCost /\ [][NextCost]_vars

(* Tables for the rates: a readmission flag on every row, with or       *)
(* without an outcome column, or neither column                           *)
FlagRows == [patient_id : PatientIds, is_readmission : BOOLEAN]

Outcomes == {"deceased", "recovered"}

OutcomeRows ==
    [patient_id : {1}, is_readmission : BOOLEAN, outcome : Outcomes]

InitRates ==
    \/ load_patient_data({"patient_id", "is_readmission"}, FlagRows, MaxRows)
    \/ load_patient_data({"patient_id", "is_readmission", "outcome"},
                         OutcomeRows, MaxRows)
    \/ load_patient_data({"patient_id"}, [patient_id : PatientIds], MaxRows)

Call_calculate_readmission_rate ==
    /\ fn = "load_patient_data"
    /\ IsFrame(ret)
    /\ \E dtype \in {"bool", "object"} :
         /\ fn' = "calculate_readmission_rate"
         /\ par' = dtype
         /\ pre' = ret
         /\ obj' = ret
         /\ ret' = calculate_readmission_rate(ret, dtype)

Call_calculate_mortality_rate ==
    /\ fn = "load_patient_data"
    /\ IsFrame(ret)
    /\ fn' = "calculate_mortality_rate"
    /\ par' = NaN
    /\ pre' = ret
    /\ obj' = ret
    /\ ret' = calculate_mortality_rate(ret)

NextRates ==
    \/ Call_calculate_readmission_rate
    \/ Call_calculate_mortality_rate

SpecRates == InitRates /\ [][NextRates]_vars

(* Raw tables with an age column, the ages at and around every bin edge, *)
(* cleaned and then grouped by age                                        *)
Ages ==
    {-1, 0, 17, 18, 34, 35, 49, 50, 64, 65, 79, 80, 119, 120, 121, NaN}

AgedRows ==
    [patient_id : PatientIds,
     admission_date : {DateText("iso", 1)},
     age : Ages]

InitAged ==
    load_patient_data({"patient_id", "admission_date", "age"},
                      AgedRows, MaxRiskRows)

Call_categorize_age_groups ==
    /\ IsFrame(ret)
    /\ "age" \in ret.columns
    /\ "age_group" \notin ret.columns
    /\ fn' = "categorize_age_groups"
    /\ par' = NaN
    /\ pre' = ret
    /\ obj' = categorize_age_groups(ret)
    /\ ret' = obj'

NextAgeGroups ==
    \/ Call_clean_patient_data
    \/ Call_categorize_age_groups

SpecAgeGroups == InitAged /\ [][NextAgeGroups]_vars

(* Department tables: with or without the cost column, or without the   *)
(* cost and outcome columns only                                          *)
Stays == {1, 7}

DepartmentRows ==
    [patient_id : {1},
     department : {Departments[i] : i \in 1..Len(Departments)},
     length_of_stay : Stays \cup {NaN}]

DepartmentRowsWithCost ==
    [patient_id : {1},
     department : {Departments[i] : i \in 1..Len(Departments)},
     length_of_stay : Stays \cup {NaN},
     total_cost : {100, NaN}]

InitDepartments ==
    \/ load_patient_data({"patient_id", "department", "length_of_stay"},
                         DepartmentRows, MaxRows)
    \/ load_patient_data({"patient_id", "department", "length_of_stay",
                          "total_cost"}, DepartmentRowsWithCost, MaxRows)

Call_calculate_department_efficiency ==
    /\ fn = "load_patient_data"
    /\ IsFrame(ret)
    /\ fn' = "calculate_department_efficiency"
    /\ par' = NaN
    /\ pre' = ret
    /\ obj' = ret
    /\ ret' = calculate_department_efficiency(ret)

NextDepartments ==
    \/ Call_calculate_department_efficiency
    \/ Call_identify_high_cost_patients
    \/ Call_calculate_mortality_rate

SpecDepartments == InitDepartments /\ [][NextDepartments]_vars

(* Raw tables taken through cleaning and then one more function: with a *)
(* birth date, or with an age and the condition indicators                *)
ConditionColumns == <<"diabetes", "hypertension">>

Features == {"age", "length_of_stay", "comorbidity_index"}

FrameRows ==
    [patient_id : PatientIds,
     admission_date : {DateText("iso", 49960), NotADate},
     discharge_date : {DateText("iso", 49970), EmptyCell},
     birth_date : {DateText("iso", 24400)}]

FrameRowsWithAge ==
    [patient_id : PatientIds,
     admission_date : {DateText("iso", 49960), NotADate},
     discharge_date : {DateText("iso", 49970)},
     age : {70, 120},
     diabetes : {0, 1},
     hypertension : {1}]

InitFrame ==
    \/ load_patient_data(EncounterColumns \cup {"birth_date"},
                         FrameRows, MaxRiskRows)
    \/ load_patient_data(EncounterColumns
                             \cup {"age", "diabetes", "hypertension"},
                         FrameRowsWithAge, MaxRiskRows)

Call_anonymize_patient_data ==
    /\ IsFrame(ret)
    /\ "patient_id" \in ret.columns
    /\ "anonymized_id" \notin ret.columns
    /\ fn' = "anonymize_patient_data"
    /\ par' = NaN
    /\ pre' = ret
    /\ obj' = anonymize_patient_data(ret)
    /\ ret' = obj'

Call_calculate_comorbidity_index ==
    /\ IsFrame(ret)
    /\ "comorbidity_index" \notin ret.columns
    /\ fn' = "calculate_comorbidity_index"
    /\ par' = NaN
    /\ pre' = ret
    /\ obj' = ret
    /\ ret' = calculate_comorbidity_index(ret, ConditionColumns)

Call_predict_readmission_risk ==
    /\ IsFrame(ret)
    /\ "predicted_readmission_risk" \notin ret.columns
    /\ fn' = "predict_readmission_risk"
    /\ par' = NaN
    /\ pre' = ret
    /\ obj' = ret
    /\ ret' = predict_readmission_risk(ret, Features)

(* the table a function works on has been cleaned *)
Cleaned == fn = "clean_patient_data"

NextFrame ==
    \/ Call_clean_patient_data
    \/ Cleaned /\ Call_calculate_patient_age
    \/ Cleaned /\ Call_calculate_length_of_stay
    \/ Cleaned /\ Call_categorize_age_groups
    \/ Cleaned /\ Call_identify_readmissions
    \/ Cleaned /\ Call_anonymize_patient_data
    \/ Cleaned /\ Call_stratify_risk_score
    \/ Cleaned /\ Call_calculate_comorbidity_index
    \/ Cleaned /\ Call_predict_readmission_risk
    \/ Call_calculate_readmission_rate
    \/ Call_calculate_mortality_rate
    \/ Call_identify_high_cost_patients
    \/ Call_calculate_department_efficiency

SpecFrame == InitFrame /\ [][NextFrame]_vars

-----------------------------------------------------------------------------
(* Properties of identify_readmissions *)

AfterReadm == fn = "identify_readmissions"

Positions(df) == 1..Len(df.rows)

(* the position in table df of the row whose index label is i *)
RowOf(df, i) == CHOOSE k \in Positions(df) : df.rows[k]["index"] = i

(* row r comes first among the encounters of its patient: every other     *)
(* encounter of that patient has a later admission date (a missing date   *)
(* counting as latest), or the same one and a later place in the table    *)
EarliestEncounter(df, r) ==
    \A s \in { df.rows[k] : k \in Positions(df) } :
        (s["patient_id"] = r["patient_id"] /\ s["index"] # r["index"]) =>
            \/ KeyBefore(r["admission_date"], s["admission_date"])
            \/ /\ ~KeyBefore(s["admission_date"], r["admission_date"])
               /\ r["index"] < s["index"]

(* C1: after identify_readmissions, whatever the dates and the window,    *)
(* the row that is its patient's earliest encounter is in the returned    *)
(* table exactly once and has is_readmission = false.                     *)
C1_EarliestEncounterNotReadmission ==
    AfterReadm =>
        \A k \in Positions(pre) :
            EarliestEncounter(pre, pre.rows[k]) =>
                /\ Cardinality({ j \in Positions(ret) :
                       ret.rows[j]["index"] = pre.rows[k]["index"] }) = 1
                /\ ret.rows[RowOf(ret, pre.rows[k]["index"])]["is_readmission"]
                       = FALSE

(* C1 witness: a patient with two encounters, the later one flagged and   *)
(* the earliest one, itself admitted after a discharge in the table, not. *)
C1_Witness ==
    /\ AfterReadm
    /\ \E j, k \in Positions(ret) :
         /\ j < k
         /\ ret.rows[j]["patient_id"] = ret.rows[k]["patient_id"]
         /\ EarliestEncounter(pre, pre.rows[RowOf(pre, ret.rows[j]["index"])])
         /\ ret.rows[j]["is_readmission"] = FALSE
         /\ ret.rows[k]["is_readmission"] = TRUE
         /\ \E i \in Positions(pre) :
              /\ ~isna(pre.rows[i]["patient_id"])
              /\ pre.rows[i]["patient_id"] # ret.rows[j]["patient_id"]
              /\ gt(timedelta_days(ret.rows[j]["admission_date"],
                                   pre.rows[i]["discharge_date"]), 0)

(* x may stand before y in ascending order with missing values last *)
Ascending(x, y) == isna(y) \/ (~isna(x) /\ x <= y)

(* the table is ordered by (patient_id, admission_date) *)
SortedByPatientAndAdmission(df) ==
    \A k \in Positions(df) : k > 1 =>
        LET a == df.rows[k - 1]
            b == df.rows[k]
        IN  /\ Ascending(a["patient_id"], b["patient_id"])
            /\ a["patient_id"] = b["patient_id"] =>
                   Ascending(a["admission_date"], b["admission_date"])

(* the rows of df, each restricted to the columns cols and its index *)
RowsOn(df, cols) ==
    { [c \in cols \cup {"index"} |-> df.rows[k][c]] : k \in Positions(df) }

(* C2: identify_readmissions returns the encounters sorted by             *)
(* (patient_id, admission_date) ascending, and an encounter is flagged    *)
(* is_readmission = true iff 0 < admission_date - discharge_date of the   *)
(* immediately preceding encounter of the same patient <= days; with no   *)
(* preceding encounter or a missing date the flag is false, never missing.*)
C2_ReadmissionFlag ==
    AfterReadm =>
        /\ Len(ret.rows) = Len(pre.rows)
        /\ RowsOn(ret, pre.columns) = RowsOn(pre, pre.columns)
        /\ SortedByPatientAndAdmission(ret)
        /\ \A k \in Positions(ret) :
             LET cur == ret.rows[k]
                 hasPrev == /\ k > 1
                            /\ ~isna(cur["patient_id"])
                            /\ ret.rows[k - 1]["patient_id"] = cur["patient_id"]
                 computable == /\ hasPrev
                               /\ ~isna(cur["admission_date"])
                               /\ ~isna(ret.rows[k - 1]["discharge_date"])
             IN  /\ cur["is_readmission"] \in BOOLEAN
                 /\ cur["is_readmission"] =
                      (/\ computable
                       /\ 0 < cur["admission_date"]
                                - ret.rows[k - 1]["discharge_date"]
                       /\ cur["admission_date"]
                                - ret.rows[k - 1]["discharge_date"] <= par)

(* C2 witness: the documented example with the default window: discharge  *)
(* day 10, then admission day 15 (flagged), then admission day 100 (not). *)
C2_Witness ==
    /\ AfterReadm
    /\ par = 30
    /\ Len(ret.rows) = 3
    /\ \A k \in 1..3 : ret.rows[k]["patient_id"] = 1
    /\ ret.rows[1]["discharge_date"] = 10
    /\ ret.rows[2]["admission_date"] = 15
    /\ ret.rows[2]["discharge_date"] = 15
    /\ ret.rows[2]["is_readmission"] = TRUE
    /\ ret.rows[3]["admission_date"] = 100
    /\ ret.rows[3]["is_readmission"] = FALSE

(* C3: is_readmission of an encounter is true iff some earlier encounter  *)
(* of the same patient, not only the immediately preceding one, has its   *)
(* discharge within the window before this admission, more than 0 days    *)
(* before it.                                                             *)
C3_AnyPriorDischargeInWindow ==
    AfterReadm =>
        \A k \in Positions(ret) :
            ret.rows[k]["is_readmission"] =
                (\E j \in 1..(k - 1) :
                    /\ ~isna(ret.rows[k]["patient_id"])
                    /\ ret.rows[j]["patient_id"] = ret.rows[k]["patient_id"]
                    /\ gt(timedelta_days(ret.rows[k]["admission_date"],
                                         ret.rows[j]["discharge_date"]), 0)
                    /\ le(timedelta_days(ret.rows[k]["admission_date"],
                                         ret.rows[j]["discharge_date"]), par))

-----------------------------------------------------------------------------
(* Properties of calculate_length_of_stay *)

AfterLos == fn = "calculate_length_of_stay"

(* C4: after calculate_length_of_stay no row has a negative               *)
(* length_of_stay: discharge before admission gives a missing value,      *)
(* discharge on the admission day gives exactly 1, and any other row with *)
(* both dates gets discharge - admission in whole days, so every value    *)
(* that is not missing is >= 1.                                           *)
C4_LengthOfStayNeverNegative ==
    AfterLos =>
        /\ Len(ret.rows) = Len(pre.rows)
        /\ \A k \in Positions(ret) :
             LET adm == pre.rows[k]["admission_date"]
                 dis == pre.rows[k]["discharge_date"]
                 los == ret.rows[k]["length_of_stay"]
             IN  /\ ret.rows[k]["index"] = pre.rows[k]["index"]
                 /\ isna(los) \/ los >= 1
                 /\ (~isna(adm) /\ ~isna(dis) /\ dis < adm) => isna(los)
                 /\ (~isna(adm) /\ ~isna(dis) /\ dis = adm) => los = 1
                 /\ (~isna(adm) /\ ~isna(dis) /\ dis > adm) => los = dis - adm

(* C4 witness: one table holding a stay that ends before it starts, a     *)
(* same-day stay and a stay of several days.                              *)
C4_Witness ==
    /\ AfterLos
    /\ \E i, j, k \in Positions(ret) :
         /\ lt(ret.rows[i]["discharge_date"], ret.rows[i]["admission_date"])
         /\ isna(ret.rows[i]["length_of_stay"])
         /\ ~isna(ret.rows[j]["admission_date"])
         /\ ret.rows[j]["discharge_date"] = ret.rows[j]["admission_date"]
         /\ ret.rows[j]["length_of_stay"] = 1
         /\ gt(ret.rows[k]["discharge_date"], ret.rows[k]["admission_date"])
         /\ ret.rows[k]["length_of_stay"] > 1

-----------------------------------------------------------------------------
(* Properties of stratify_risk_score *)

AfterRisk == fn = "stratify_risk_score"

(* C5: every row of the table stratify_risk_score returns has a           *)
(* risk_score that is a number in [0, 100], also for rows the derivation  *)
(* functions produced (a missing length_of_stay, an age computed from     *)
(* birth_date).                                                           *)
C5_RiskScoreInRange ==
    AfterRisk =>
        \A k \in Positions(ret) :
            /\ ~isna(ret.rows[k]["risk_score"])
            /\ 0 <= ret.rows[k]["risk_score"]
            /\ ret.rows[k]["risk_score"] <= 100 * ScoreDen

(* min(x / d, 1) * 30 as a numerator over ScoreDen *)
CappedShare(x, d) ==
    (IF x * ScoreDen <= d * ScoreDen THEN x * (ScoreDen \div d) ELSE ScoreDen)
        * 30

(* C6: for every row (whose source cells are present) risk_score =        *)
(* min(age/120, 1)*30 + min(los/30, 1)*30 + is_readmission*40, each term  *)
(* being 0 when its column is absent from the table.                      *)
C6_RiskScoreFormula ==
    AfterRisk =>
        \A k \in Positions(ret) :
            LET row == pre.rows[k]
                hasAge == "age" \in pre.columns
                hasLos == "length_of_stay" \in pre.columns
                hasReadm == "is_readmission" \in pre.columns
                present == /\ hasAge => ~isna(row["age"])
                           /\ hasLos => ~isna(row["length_of_stay"])
            IN  present =>
                  ret.rows[k]["risk_score"] =
                      (IF hasAge THEN CappedShare(row["age"], 120) ELSE 0)
                    + (IF hasLos THEN CappedShare(row["length_of_stay"], 30)
                       ELSE 0)
                    + (IF hasReadm /\ row["is_readmission"]
                       THEN 40 * ScoreDen ELSE 0)

(* C7: risk_category depends on risk_score alone, with crisp boundaries:  *)
(* below 30 'Low Risk', from 30 up to but excluding 60 'Medium Risk',     *)
(* 60 and above 'High Risk'; every row has exactly one of the three.      *)
C7_RiskCategoryBoundaries ==
    AfterRisk =>
        /\ \A k \in Positions(ret) :
             LET score == ret.rows[k]["risk_score"]
                 cat   == ret.rows[k]["risk_category"]
             IN  /\ cat \in {"Low Risk", "Medium Risk", "High Risk"}
                 /\ ~isna(score) =>
                      /\ (score < 30 * ScoreDen) = (cat = "Low Risk")
                      /\ (30 * ScoreDen <= score /\ score < 60 * ScoreDen)
                             = (cat = "Medium Risk")
                      /\ (score >= 60 * ScoreDen) = (cat = "High Risk")
        /\ \A j, k \in Positions(ret) :
             ret.rows[j]["risk_score"] = ret.rows[k]["risk_score"] =>
                 ret.rows[j]["risk_category"] = ret.rows[k]["risk_category"]

(* C7 witness: a scored table with a row at exactly 30 (age 80, stay 10)  *)
(* in 'Medium Risk' and a row at exactly 60 (age 120, stay over 30) in    *)
(* 'High Risk'.                                                           *)
C7_Witness ==
    /\ AfterRisk
    /\ \E j, k \in Positions(ret) :
         /\ ret.rows[j]["risk_score"] = 30 * ScoreDen
         /\ ret.rows[j]["risk_category"] = "Medium Risk"
         /\ ret.rows[k]["risk_score"] = 60 * ScoreDen
         /\ ret.rows[k]["risk_category"] = "High Risk"

-----------------------------------------------------------------------------
(* Properties of clean_patient_data *)

AfterClean == fn = "clean_patient_data"

Indexes(df) == { df.rows[k]["index"] : k \in Positions(df) }

(* C8: the table clean_patient_data returns has patient_id and            *)
(* admission_date populated in every row (an admission date that does not *)
(* parse counts as missing and raises nothing), no two rows with the same *)
(* (patient_id, admission_date) pair and, when there is an age column,    *)
(* every age in [0, 120].                                                 *)
C8_CleanedTableInvariant ==
    AfterClean =>
        /\ IsFrame(ret)
        /\ Indexes(ret) \subseteq Indexes(pre)
        /\ \A k \in Positions(pre) :
             pre.rows[k]["admission_date"].fmt \in {"text", "nan"} =>
                 pre.rows[k]["index"] \notin Indexes(ret)
        /\ \A k \in Positions(ret) :
             /\ ~isna(ret.rows[k]["patient_id"])
             /\ ~isna(ret.rows[k]["admission_date"])
             /\ "age" \in ret.columns =>
                  /\ ~isna(ret.rows[k]["age"])
                  /\ 0 <= ret.rows[k]["age"]
                  /\ ret.rows[k]["age"] <= 120
        /\ \A j, k \in Positions(ret) :
             (/\ ret.rows[j]["patient_id"] = ret.rows[k]["patient_id"]
              /\ ret.rows[j]["admission_date"] = ret.rows[k]["admission_date"])
                 => j = k

(* C8 witness: a raw table with an age column holding an admission date   *)
(* that is no date and the same admission written in two formats for one  *)
(* patient, cleaned to a table that still has a row.                      *)
C8_Witness ==
    /\ AfterClean
    /\ "age" \in pre.columns
    /\ \E i, j, k \in Positions(pre) :
         /\ pre.rows[i]["admission_date"] = NotADate
         /\ j # k
         /\ pre.rows[j]["patient_id"] = pre.rows[k]["patient_id"]
         /\ pre.rows[j]["admission_date"] = DateText("iso", 1)
         /\ pre.rows[k]["admission_date"] = DateText("us", 1)
    /\ Len(ret.rows) = 1

(* the raw table with its dates converted as the call converted them *)
Converted == convert_dates(pre.rows, pre.columns, DateColumns, par)

(* the positions of the rows of conv that share row k's populated         *)
(* (patient_id, admission_date) pair                                      *)
PairGroup(conv, k) ==
    IF isna(conv[k]["patient_id"]) \/ isna(conv[k]["admission_date"])
    THEN {}
    ELSE { j \in 1..Len(conv) :
             /\ conv[j]["patient_id"] = conv[k]["patient_id"]
             /\ conv[j]["admission_date"] = conv[k]["admission_date"] }

FirstSeen(G) == CHOOSE k \in G : \A j \in G : k <= j

(* the rows of the cleaned table that come from the raw rows at G *)
KeptOf(G) ==
    { k \in Positions(ret) :
        \E j \in G : ret.rows[k]["index"] = pre.rows[j]["index"] }

(* C9: several raw rows sharing one (patient_id, admission_date) pair     *)
(* collapse to one row of the cleaned table, which carries the values of  *)
(* the first-seen row of the pair.                                        *)
C9_DuplicatesCollapseToFirst ==
    AfterClean =>
        LET conv == Converted
        IN  \A k \in Positions(pre) :
              LET G == PairGroup(conv, k)
              IN  Cardinality(G) >= 2 =>
                    /\ Cardinality(KeptOf(G)) = 1
                    /\ \A r \in KeptOf(G) : ret.rows[r] = conv[FirstSeen(G)]

(* C9 amended: several raw rows sharing one populated pair collapse to at *)
(* most one row of the cleaned table; a row that remains is the           *)
(* first-seen row of the pair with its values, and it remains iff the     *)
(* table has no age column or the first-seen row's age is in [0, 120].    *)
C9_DuplicatesCollapseToFirstIfValid ==
    AfterClean =>
        LET conv == Converted
        IN  \A k \in Positions(pre) :
              LET G == PairGroup(conv, k)
                  first == conv[FirstSeen(G)]
              IN  Cardinality(G) >= 2 =>
                    /\ Cardinality(KeptOf(G)) <= 1
                    /\ \A r \in KeptOf(G) : ret.rows[r] = first
                    /\ (KeptOf(G) # {}) =
                         ("age" \in pre.columns =>
                              ge(first["age"], 0) /\ le(first["age"], 120))

(* C9 witness: two raw rows of one pair with different ages, the          *)
(* first-seen one valid, of which the cleaned table keeps the first.      *)
C9_Witness ==
    /\ AfterClean
    /\ "age" \in pre.columns
    /\ \E k \in Positions(pre) :
         LET G == PairGroup(Converted, k)
         IN  /\ Cardinality(G) >= 2
             /\ \E j \in G : pre.rows[j]["age"] # pre.rows[FirstSeen(G)]["age"]
             /\ KeptOf(G) # {}
             /\ \A r \in KeptOf(G) :
                  ret.rows[r]["index"] = pre.rows[FirstSeen(G)]["index"]

-----------------------------------------------------------------------------
(* Properties of identify_high_cost_patients *)

AfterCost == fn = "identify_high_cost_patients" /\ IsFrame(ret)

PresentCostRows == { k \in Positions(pre) : ~isna(pre.rows[k]["total_cost"]) }

(* the k-th smallest of the costs present: the cost v with fewer than k   *)
(* costs below it and at least k costs not above it                       *)
OrderStatistic(k) ==
    CHOOSE v \in { pre.rows[j]["total_cost"] : j \in PresentCostRows } :
        /\ Cardinality({ j \in PresentCostRows :
                           pre.rows[j]["total_cost"] < v }) < k
        /\ Cardinality({ j \in PresentCostRows :
                           pre.rows[j]["total_cost"] <= v }) >= k

(* 100 times the par-th percentile of the costs present *)
PercentileValue ==
    LET n     == Cardinality(PresentCostRows)
        whole == ((n - 1) * par) \div 100
        part  == ((n - 1) * par) % 100
    IN  IF part = 0 THEN 100 * OrderStatistic(whole + 1)
        ELSE (100 - part) * OrderStatistic(whole + 1)
               + part * OrderStatistic(whole + 2)

(* the rows whose cost is at or above the percentile value *)
AtOrAbovePercentile ==
    { k \in PresentCostRows :
        100 * pre.rows[k]["total_cost"] >= PercentileValue }

(* the returned rows are the rows of the input at K, in table order,      *)
(* each with its values *)
ReturnsRowsAt(K) ==
    /\ Len(ret.rows) = Cardinality(K)
    /\ Indexes(ret) = { pre.rows[k]["index"] : k \in K }
    /\ \A j, k \in Positions(ret) :
         j < k => ret.rows[j]["index"] < ret.rows[k]["index"]
    /\ \A k \in Positions(ret) :
         ret.rows[k] = SetCell(pre.rows[RowOf(pre, ret.rows[k]["index"])],
                               "cost_category", "High Cost")

(* C10: identify_high_cost_patients with percentile p returns exactly the *)
(* rows whose cost is >= the p-th percentile value of the cost column,    *)
(* ties at the threshold included; with percentile 0 it returns the full  *)
(* table.                                                                 *)
C10_HighCostCohort ==
    AfterCost =>
        /\ ReturnsRowsAt(AtOrAbovePercentile)
        /\ par = 0 => ReturnsRowsAt(Positions(pre))

(* C10 amended: it returns exactly the rows whose cost is >= the p-th     *)
(* percentile value (of the costs that are not missing), ties included;   *)
(* with percentile 0 it returns every row whose cost is not missing,      *)
(* which is the full table when no cost is missing.                       *)
C10_HighCostCohortOfPresentCosts ==
    AfterCost =>
        /\ ReturnsRowsAt(AtOrAbovePercentile)
        /\ par = 0 => ReturnsRowsAt(PresentCostRows)
        /\ (par = 0 /\ PresentCostRows = Positions(pre)) =>
               ReturnsRowsAt(Positions(pre))

(* C10 witness: percentile 0 over two rows tied at the lowest cost and a  *)
(* row whose cost is missing: the two tied rows are returned.             *)
C10_Witness ==
    /\ AfterCost
    /\ par = 0
    /\ Len(pre.rows) = 3
    /\ Cardinality(PresentCostRows) = 2
    /\ Len(ret.rows) = 2
    /\ ret.rows[1]["total_cost"] = ret.rows[2]["total_cost"]

-----------------------------------------------------------------------------
(* Properties of calculate_readmission_rate and calculate_mortality_rate *)

AfterReadmissionRate ==
    fn = "calculate_readmission_rate" /\ "is_readmission" \in pre.columns

Flagged == count_cells(pre.rows, "is_readmission", TRUE)

(* the result is the number x with 0 <= x <= 100 and x * rows = 100 * n *)
IsPercentageOf(v, n, rows) ==
    /\ v.kind = "float"
    /\ ~isna(v.num)
    /\ v.den > 0
    /\ v.num * rows = 100 * n * v.den
    /\ 0 <= v.num
    /\ v.num <= 100 * v.den

(* C11: calculate_readmission_rate returns 100 * flagged rows / rows: it  *)
(* is 0 over a table with no readmission, 100 over a table whose rows are *)
(* all flagged, and always a number in [0, 100].                          *)
C11_ReadmissionRate ==
    AfterReadmissionRate =>
        /\ IsPercentageOf(ret, Flagged, Len(pre.rows))
        /\ Flagged = 0 => ret.num = 0
        /\ Flagged = Len(pre.rows) /\ Len(pre.rows) > 0
               => ret.num = 100 * ret.den

AfterMortalityRate == fn = "calculate_mortality_rate"

Deceased == count_cells(pre.rows, "outcome", "deceased")

(* C12: calculate_mortality_rate returns None, without raising, when the  *)
(* outcome column is absent; otherwise the percentage, in [0, 100], of    *)
(* the rows whose outcome equals 'deceased'.                              *)
C12_MortalityRate ==
    AfterMortalityRate =>
        IF "outcome" \notin pre.columns
        THEN ret = None
        ELSE IsPercentageOf(ret, Deceased, Len(pre.rows))

-----------------------------------------------------------------------------
(* Properties of categorize_age_groups *)

(* the label the bin edges [0,18,35,50,65,80,120], closed on the left and *)
(* open on the right, give an age of 0..119                               *)
LabelOfAge(a) ==
    IF a < 18 THEN "0-17"
    ELSE IF a < 35 THEN "18-34"
    ELSE IF a < 50 THEN "35-49"
    ELSE IF a < 65 THEN "50-64"
    ELSE IF a < 80 THEN "65-79"
    ELSE "80+"

BinnedAsStated(df) ==
    \A k \in Positions(df) :
        ge(df.rows[k]["age"], 0) /\ lt(df.rows[k]["age"], 120)
            => df.rows[k]["age_group"] = LabelOfAge(df.rows[k]["age"])

EveryRowLabelled(df) ==
    \A k \in Positions(df) :
        df.rows[k]["age_group"] \in {labels[i] : i \in 1..Len(labels)}

(* C13: categorize_age_groups labels an age by the bins [0,18), [18,35),  *)
(* [35,50), [50,65), [65,80), [80,120), and every row of a table that     *)
(* clean_patient_data returned receives one of the six labels.            *)
C13_AgeGroups ==
    [][fn' = "categorize_age_groups"
          => /\ BinnedAsStated(ret')
             /\ fn = "clean_patient_data" => EveryRowLabelled(ret')]_vars

-----------------------------------------------------------------------------
(* Properties of the functions over tables that lack an optional column *)

LacksCost == "total_cost" \notin pre.columns

(* C15: a missing optional column degrades gracefully: on a table with   *)
(* no total_cost column calculate_department_efficiency completes and    *)
(* returns its table of metrics, as identify_high_cost_patients and       *)
(* calculate_mortality_rate return None for their absent column.         *)
C15_MissingColumnsDegrade ==
    /\ fn = "calculate_department_efficiency" /\ LacksCost
           /\ {"department", "patient_id", "length_of_stay"}
                  \subseteq pre.columns
           => IsFrame(ret)
    /\ fn = "identify_high_cost_patients" /\ LacksCost => ret = None
    /\ fn = "calculate_mortality_rate" /\ "outcome" \notin pre.columns
           => ret = None

-----------------------------------------------------------------------------
(* The effect of a call on the table passed to it *)

AfterCall == fn # "load_patient_data"

(* the table passed in has gained column c and is otherwise as it was *)
GainedColumn(c) ==
    /\ IsFrame(obj)
    /\ c \notin pre.columns
    /\ obj.columns = pre.columns \cup {c}
    /\ Len(obj.rows) = Len(pre.rows)
    /\ \A k \in Positions(pre) :
           /\ DOMAIN obj.rows[k] = (DOMAIN pre.rows[k]) \cup {c}
           /\ \A x \in DOMAIN pre.rows[k] : obj.rows[k][x] = pre.rows[k][x]

(* C14: every function leaves the table passed to it unchanged, except   *)
(* calculate_patient_age and calculate_length_of_stay, which add their   *)
(* column to it in place.                                                 *)
C14_OnlyAgeAndStayInPlace ==
    AfterCall =>
        CASE fn = "calculate_patient_age" -> GainedColumn("age")
          [] fn = "calculate_length_of_stay" -> GainedColumn("length_of_stay")
          [] OTHER -> obj = pre

(* C14, amended: every function leaves the table passed to it unchanged, *)
(* except calculate_patient_age, calculate_length_of_stay,               *)
(* categorize_age_groups and anonymize_patient_data, which add their     *)
(* column to it in place.                                                 *)
C14_FourDerivationsInPlace ==
    AfterCall =>
        CASE fn = "calculate_patient_age" -> GainedColumn("age")
          [] fn = "calculate_length_of_stay" -> GainedColumn("length_of_stay")
          [] fn = "categorize_age_groups" -> GainedColumn("age_group")
          [] fn = "anonymize_patient_data" -> GainedColumn("anonymized_id")
          [] OTHER -> obj = pre

(* two patients anonymized: the table passed in now carries their new ids *)
C14_Witness ==
    /\ fn = "anonymize_patient_data"
    /\ Len(pre.rows) = 2
    /\ "anonymized_id" \notin pre.columns
    /\ obj.rows[1]["anonymized_id"] = id_mapping(1)
    /\ obj.rows[2]["anonymized_id"] = id_mapping(2)
    /\ obj # pre

=============================================================================
